---- MODULE Spec2Model ----
(***************************************************************************)
(* PhotoSorter (src/1stFile.js): the album list screen and the photo       *)
(* review screen, as state machines over the React state of the two        *)
(* components and the media library they call.                             *)
(*                                                                         *)
(* A handler of a component is a closure of the render that created it: it *)
(* reads the currentIndex and photos of that render.  A gesture is handled *)
(* by the closure of the latest render; an async handleSwipe that resumes  *)
(* after an await still runs the closure of the render that started it, so *)
(* each call in flight carries the index it captured.                      *)
(***************************************************************************)
EXTENDS Integers, Sequences, FiniteSets, Bags

(* ------------------------------ bounds --------------------------------- *)

\* Photos an album holds at most.
MaxPhotos == 3
\* Classifications that are in flight or have reached the library, at most.
MaxClassified == 2
\* Albums the library returns at most, and the assets one of them holds at most.
MaxAlbums == 3
MaxCount == 2

(* ----------------------------- constants ------------------------------- *)

threshold == 50

\* Translations a released pan reports on one axis: just under, at and just
\* over the threshold, in both senses.
Displacements == {0 - (threshold + 1), 0 - threshold, 0 - (threshold - 1),
                  threshold - 1, threshold, threshold + 1}

TargetAlbums == {"likedPhotos", "superlikedPhotos", "toDelete"}

VARIABLES
    \* PhotosScreen
    photos,             \* useState([]): the assets under review
    currentIndex,       \* useState(0), 0-based
    loading,            \* useState(true)
    imageLoading,       \* useState(true)
    bitmapLoaded,       \* the <Image> has loaded the bitmap of its current source
    inflight,           \* bag of the handleSwipe calls suspended at an await
    library,            \* the media library's albums named by TargetAlbums
    last,               \* what the latest step did (history, for stating properties)
    \* AlbumListScreen
    albums,             \* useState([])
    albumsLoading,      \* useState(true)
    albumPhase,         \* the await the mount effect is suspended at
    libAlbums,          \* what getAlbumsAsync returns: a sequence of [id, count]
    fetched,            \* the effect's local `albums`
    counted,            \* per index of fetched: the settled totalCount, -1 while pending
    \* both
    unhandled           \* a promise of the app rejected with no handler

reviewVars == <<photos, currentIndex, loading, imageLoading, bitmapLoaded,
                inflight, library, last>>
albumVars == <<albums, albumsLoading, albumPhase, libAlbums, fetched, counted>>
vars == <<reviewVars, albumVars, unhandled>>

(* ------------------------------ helpers -------------------------------- *)

Abs(x) == IF x < 0 THEN 0 - x ELSE x

Reverse(s) == [i \in 1..Len(s) |-> s[Len(s) + 1 - i]]

\* The released pan stayed under the threshold on both axes.
Under(dx, dy) == Abs(dx) < threshold /\ Abs(dy) < threshold

Event(kind, dir, under, outcome) ==
    [kind |-> kind, dir |-> dir, under |-> under, outcome |-> outcome]

NoAlbum == [present |-> FALSE, assets |-> {}]

RECURSIVE SumOver(_, _)
SumOver(f, S) ==
    IF S = {} THEN 0
    ELSE LET x == CHOOSE y \in S : TRUE IN f[x] + SumOver(f, S \ {x})

\* Classifications in flight plus those the library holds.
Classified ==
    BagCardinality(inflight)
    + SumOver([a \in TargetAlbums |-> Cardinality(library[a].assets)], TargetAlbums)

(* --------------------------- PhotosScreen ------------------------------ *)

\* SwipeDirection with the threshold left out: any release is a swipe.
SwipeDirectionNoThreshold(dx, dy) ==
    IF Abs(dx) > Abs(dy)
    THEN IF dx > 0 THEN "right" ELSE "left"
    ELSE IF dy > 0 THEN "down" ELSE "up"

\* gesture.onEnd's choice of direction; "none" when no branch calls handleSwipe.
SwipeDirection(dx, dy) ==
    IF Abs(dx) > Abs(dy)
    THEN IF dx > threshold THEN "right"
         ELSE IF dx < 0 - threshold THEN "left"
         ELSE "none"
    ELSE IF dy > threshold THEN "down"
         ELSE IF dy < 0 - threshold THEN "up"
         ELSE "none"

\* TargetAlbum with the albums of right and up exchanged.
TargetAlbumSwapped(direction) ==
    CASE direction = "right" -> "superlikedPhotos"
      [] direction = "up" -> "likedPhotos"
      [] direction = "down" -> "toDelete"
      [] OTHER -> "none"

\* handleSwipe's switch.
TargetAlbum(direction) ==
    CASE direction = "right" -> "likedPhotos"
      [] direction = "up" -> "superlikedPhotos"
      [] direction = "down" -> "toDelete"
      [] OTHER -> "none"

\* photos[index] of a 0-based index; 0 stands for undefined.
PhotoAt(index) == IF index + 1 \in DOMAIN photos THEN photos[index + 1] ELSE 0

\* moveToNextPhoto with no check of the end of the sequence.
MoveToNextPhotoUnguarded(index) ==
    /\ currentIndex' = index + 1
    /\ imageLoading' = TRUE
    /\ bitmapLoaded' = (bitmapLoaded /\ index + 1 = currentIndex)

\* moveToNextPhoto with its check off by one: it steps past the last photo.
MoveToNextPhotoOffByOne(index) ==
    IF index < Len(photos)
    THEN /\ currentIndex' = index + 1
         /\ imageLoading' = TRUE
         /\ bitmapLoaded' = (bitmapLoaded /\ index + 1 = currentIndex)
    ELSE UNCHANGED <<currentIndex, imageLoading, bitmapLoaded>>

\* moveToNextPhoto of the render whose currentIndex was `index`.  The <Image>
\* loads anew when its source changes, not when it is set to the same photo.
MoveToNextPhoto(index) ==
    IF index < Len(photos) - 1
    THEN /\ currentIndex' = index + 1
         /\ imageLoading' = TRUE
         /\ bitmapLoaded' = (bitmapLoaded /\ index + 1 = currentIndex)
    ELSE UNCHANGED <<currentIndex, imageLoading, bitmapLoaded>>

\* The mount effect: getAssetsAsync resolves with n assets by creation time.
LoadPhotos(n) ==
    /\ loading
    /\ ~unhandled
    /\ photos' = Reverse([i \in 1..n |-> i])
    /\ loading' = FALSE
    /\ last' = Event("load", "none", FALSE, "ok")
    /\ UNCHANGED <<currentIndex, imageLoading, bitmapLoaded, inflight, library>>
    /\ UNCHANGED <<albumVars, unhandled>>

\* The mount effect: getAssetsAsync rejects; nothing catches it.
LoadPhotosRejects ==
    /\ loading
    /\ ~unhandled
    /\ unhandled' = TRUE
    /\ last' = Event("load", "none", FALSE, "throws")
    /\ UNCHANGED <<photos, currentIndex, loading, imageLoading, bitmapLoaded,
                   inflight, library>>
    /\ UNCHANGED albumVars

\* The photo view is rendered (neither the loading nor the empty view).
Reviewing == ~loading /\ Len(photos) > 0

\* <Image onLoad>: the bitmap of the displayed photo has finished loading.
ImageOnLoad ==
    /\ Reviewing
    /\ ~bitmapLoaded
    /\ bitmapLoaded' = TRUE
    /\ imageLoading' = FALSE
    /\ last' = Event("onLoad", "none", FALSE, "ok")
    /\ UNCHANGED <<photos, currentIndex, loading, inflight, library>>
    /\ UNCHANGED <<albumVars, unhandled>>

\* handleSwipe whose 'left' case does not return but goes on to the library.
HandleSwipeLeftFallsThrough(direction) ==
    IF PhotoAt(currentIndex) = 0
    THEN UNCHANGED <<currentIndex, imageLoading, bitmapLoaded, inflight>>
    ELSE /\ inflight' = inflight (+) SetToBag({[index |-> currentIndex,
                                               photo |-> PhotoAt(currentIndex),
                                               target |-> IF direction = "left"
                                                          THEN "toDelete"
                                                          ELSE TargetAlbum(direction),
                                               pc |-> "getAlbum"]})
         /\ IF direction = "left"
            THEN MoveToNextPhoto(currentIndex)
            ELSE UNCHANGED <<currentIndex, imageLoading, bitmapLoaded>>

\* handleSwipe calling moveToNextPhoto before its first await too.
HandleSwipeAdvancesFirst(direction) ==
    IF direction = "left"
    THEN /\ MoveToNextPhoto(currentIndex)
         /\ UNCHANGED inflight
    ELSE IF PhotoAt(currentIndex) = 0
    THEN UNCHANGED <<currentIndex, imageLoading, bitmapLoaded, inflight>>
    ELSE /\ inflight' = inflight (+) SetToBag({[index |-> currentIndex,
                                               photo |-> PhotoAt(currentIndex),
                                               target |-> TargetAlbum(direction),
                                               pc |-> "getAlbum"]})
         /\ MoveToNextPhoto(currentIndex)

\* handleSwipe(direction) up to its first await, or to its return.
HandleSwipe(direction) ==
    IF direction = "left"
    THEN /\ MoveToNextPhoto(currentIndex)
         /\ UNCHANGED inflight
    ELSE IF PhotoAt(currentIndex) = 0
    THEN UNCHANGED <<currentIndex, imageLoading, bitmapLoaded, inflight>>
    ELSE /\ inflight' = inflight (+) SetToBag({[index |-> currentIndex,
                                               photo |-> PhotoAt(currentIndex),
                                               target |-> TargetAlbum(direction),
                                               pc |-> "getAlbum"]})
         /\ UNCHANGED <<currentIndex, imageLoading, bitmapLoaded>>

\* gesture.onEnd with the released pan's translation.
GestureOnEnd(dx, dy) ==
    /\ Reviewing
    /\ LET direction == SwipeDirection(dx, dy)
       IN /\ IF direction = "none"
             THEN UNCHANGED <<currentIndex, imageLoading, bitmapLoaded, inflight>>
             ELSE /\ direction \in {"right", "up", "down"} => Classified < MaxClassified
                  /\ HandleSwipe(direction)
          /\ last' = Event("release", direction, Under(dx, dy), "ok")
    /\ UNCHANGED <<photos, loading, library>>
    /\ UNCHANGED <<albumVars, unhandled>>

\* The rest of handleSwipe once its try block is left, by its end or by the
\* catch: moveToNextPhoto, and the call is over.
LeaveTry(op) ==
    /\ inflight' = inflight (-) SetToBag({op})
    /\ MoveToNextPhoto(op.index)
    /\ UNCHANGED unhandled

\* handleSwipe with no catch: the error leaves the handler, which never reaches
\* moveToNextPhoto.
CatchErrorRethrows(op) ==
    /\ inflight' = inflight (-) SetToBag({op})
    /\ unhandled' = TRUE
    /\ UNCHANGED <<currentIndex, imageLoading, bitmapLoaded>>

\* An await of handleSwipe throws: the catch block logs, then the handler goes on.
CatchError(op) == LeaveTry(op)

\* handleSwipe resumes from `await getAlbumAsync(targetAlbum)`.
GetAlbumSettles(op, outcome) ==
    /\ BagIn(op, inflight)
    /\ op.pc = "getAlbum"
    /\ IF outcome = "throws"
       THEN /\ CatchError(op)
            /\ last' = Event("settle", "none", FALSE, "throws")
       ELSE LET found == library[op.target].present
            IN /\ inflight' = (inflight (-) SetToBag({op})) (+)
                     SetToBag({[op EXCEPT !.pc =
                                   IF found THEN "addAssets" ELSE "createAlbum"]})
               /\ last' = Event("settle", "none", FALSE,
                                IF found THEN "found" ELSE "absent")
               /\ UNCHANGED <<currentIndex, imageLoading, bitmapLoaded, unhandled>>
    /\ UNCHANGED <<photos, loading, library>>
    /\ UNCHANGED albumVars

\* handleSwipe resumes from `await createAlbumAsync(targetAlbum, currentPhoto, false)`.
CreateAlbumSettles(op, outcome) ==
    /\ BagIn(op, inflight)
    /\ op.pc = "createAlbum"
    /\ IF outcome = "ok"
       THEN /\ library' = [library EXCEPT ![op.target] =
                  [present |-> TRUE, assets |-> @.assets \cup {op.photo}]]
            /\ LeaveTry(op)
       ELSE /\ UNCHANGED library
            /\ CatchError(op)
    /\ last' = Event("settle", "none", FALSE, outcome)
    /\ UNCHANGED <<photos, loading>>
    /\ UNCHANGED albumVars

\* handleSwipe resumes from `await addAssetsToAlbumAsync([currentPhoto], album, false)`.
AddAssetsSettles(op, outcome) ==
    /\ BagIn(op, inflight)
    /\ op.pc = "addAssets"
    /\ IF outcome = "ok"
       THEN /\ library' = [library EXCEPT ![op.target].assets = @ \cup {op.photo}]
            /\ LeaveTry(op)
       ELSE /\ UNCHANGED library
            /\ CatchError(op)
    /\ last' = Event("settle", "none", FALSE, outcome)
    /\ UNCHANGED <<photos, loading>>
    /\ UNCHANGED albumVars

(* ------------------------- AlbumListScreen ----------------------------- *)

\* The comparator with its operands exchanged: ascending.
CompareAscending(a, b) == a.assetCount - b.assetCount

\* The comparator handed to sort: negative when a goes first.
Compare(a, b) == b.assetCount - a.assetCount

\* x put into the sorted t behind every element that does not go after it.
Insert(t, x) ==
    LET k == Cardinality({j \in 1..Len(t) : Compare(t[j], x) <= 0})
    IN SubSeq(t, 1, k) \o <<x>> \o SubSeq(t, k + 1, Len(t))

\* Array.prototype.sort with Compare: a stable sort.
RECURSIVE Sort(_)
Sort(s) == IF s = <<>> THEN <<>> ELSE Insert(Sort(SubSeq(s, 1, Len(s) - 1)), s[Len(s)])

\* `await requestPermissionsAsync()` resolves.
PermissionSettles(status) ==
    /\ albumPhase = "permission"
    /\ IF status # "granted"
       THEN /\ albumsLoading' = FALSE
            /\ albumPhase' = "denied"
       ELSE /\ albumPhase' = "getAlbums"
            /\ UNCHANGED albumsLoading
    /\ UNCHANGED <<albums, libAlbums, fetched, counted>>
    /\ UNCHANGED <<reviewVars, unhandled>>

\* `await getAlbumsAsync()` resolves; albums.map starts one count query per album.
GetAlbumsSettles ==
    /\ albumPhase = "getAlbums"
    /\ fetched' = libAlbums
    /\ counted' = [i \in 1..Len(libAlbums) |-> 0 - 1]
    /\ albumPhase' = "counting"
    /\ UNCHANGED <<albums, albumsLoading, libAlbums>>
    /\ UNCHANGED <<reviewVars, unhandled>>

\* The getAssetsAsync of the album at index i resolves.
CountSettles(i) ==
    /\ albumPhase = "counting"
    /\ i \in DOMAIN counted
    /\ counted[i] < 0
    /\ counted' = [counted EXCEPT ![i] = fetched[i].count]
    /\ UNCHANGED <<albums, albumsLoading, albumPhase, libAlbums, fetched>>
    /\ UNCHANGED <<reviewVars, unhandled>>

\* Promise.all resolves, in the order of the input; then sort, setAlbums, setLoading.
PromiseAllResolves ==
    /\ albumPhase = "counting"
    /\ \A i \in DOMAIN counted : counted[i] >= 0
    /\ LET albumsWithCount ==
               [i \in DOMAIN fetched |-> [id |-> fetched[i].id, assetCount |-> counted[i]]]
       IN albums' = Sort(albumsWithCount)
    /\ albumsLoading' = FALSE
    /\ albumPhase' = "rendered"
    /\ UNCHANGED <<libAlbums, fetched, counted>>
    /\ UNCHANGED <<reviewVars, unhandled>>

\* An await of the mount effect rejects; nothing catches it.
AlbumLoadRejects ==
    /\ albumPhase \in {"permission", "getAlbums", "counting"}
    /\ albumPhase = "counting" => \E i \in DOMAIN counted : counted[i] < 0
    /\ albumPhase' = "rejected"
    /\ unhandled' = TRUE
    /\ UNCHANGED <<albums, albumsLoading, libAlbums, fetched, counted>>
    /\ UNCHANGED reviewVars

(* --------------------------- specification ----------------------------- *)

InitReview ==
    /\ photos = <<>>
    /\ currentIndex = 0
    /\ loading = TRUE
    /\ imageLoading = TRUE
    /\ bitmapLoaded = FALSE
    /\ inflight = EmptyBag
    /\ library = [a \in TargetAlbums |-> NoAlbum]
    /\ last = Event("init", "none", FALSE, "ok")

\* AlbumListScreen as mounted, over a library of up to MaxAlbums albums.
InitAlbums ==
    /\ albums = <<>>
    /\ albumsLoading = TRUE
    /\ albumPhase = "permission"
    /\ \E n \in 0..MaxAlbums :
           libAlbums \in {[i \in 1..n |-> [id |-> i, count |-> c[i]]] :
                              c \in [1..n -> 0..MaxCount]}
    /\ fetched = <<>>
    /\ counted = <<>>

\* AlbumListScreen once it has rendered the list its user picked an album from.
InitAlbumsRendered ==
    /\ albums = <<[id |-> 1, assetCount |-> MaxPhotos]>>
    /\ albumsLoading = FALSE
    /\ albumPhase = "rendered"
    /\ libAlbums = <<[id |-> 1, count |-> MaxPhotos]>>
    /\ fetched = libAlbums
    /\ counted = <<MaxPhotos>>

\* A review session: PhotosScreen from its mount.
Init == InitReview /\ InitAlbumsRendered /\ unhandled = FALSE

Ops == {[index |-> i, photo |-> p, target |-> t, pc |-> c] :
            i \in 0..(MaxPhotos - 1), p \in 1..MaxPhotos, t \in TargetAlbums,
            c \in {"getAlbum", "createAlbum", "addAssets"}}

Next ==
    \/ \E n \in 0..MaxPhotos : LoadPhotos(n)
    \/ LoadPhotosRejects
    \/ ImageOnLoad
    \/ \E dx \in Displacements, dy \in Displacements : GestureOnEnd(dx, dy)
    \/ \E op \in Ops, o \in {"throws", "answers"} : GetAlbumSettles(op, o)
    \/ \E op \in Ops, o \in {"throws", "null", "ok"} : CreateAlbumSettles(op, o)
    \/ \E op \in Ops, o \in {"throws", "ok"} : AddAssetsSettles(op, o)

Spec == Init /\ [][Next]_vars

\* The album list: AlbumListScreen from its mount.
InitAlbumList == InitReview /\ InitAlbums /\ unhandled = FALSE

NextAlbumList ==
    \/ \E status \in {"granted", "denied"} : PermissionSettles(status)
    \/ GetAlbumsSettles
    \/ \E i \in 1..MaxAlbums : CountSettles(i)
    \/ PromiseAllResolves
    \/ AlbumLoadRejects

SpecAlbumList == InitAlbumList /\ [][NextAlbumList]_vars

(* ----------------------------- properties ------------------------------ *)

\* The step ends the handleSwipe call op: it leaves the bag of calls in flight.
Ends(op) == BagIn(op, inflight) /\ inflight' = inflight (-) SetToBag({op})

\* The step is a release handled as a swipe in direction d.
Released(d) == last'.kind = "release" /\ last'.dir = d

\* The displayed photo is the last of the sequence.
AtLastPhoto == Reviewing /\ currentIndex = Len(photos) - 1

\* What moveToNextPhoto is to do to the index for a swipe released at index.
Advanced(index) ==
    /\ currentIndex' = IF index < Len(photos) - 1 THEN index + 1 ELSE currentIndex
    /\ imageLoading' = IF index < Len(photos) - 1 THEN TRUE ELSE imageLoading

NameOf(d) ==
    IF d = "right" THEN "likedPhotos"
    ELSE IF d = "up" THEN "superlikedPhotos" ELSE "toDelete"

\* C1 as stated: the end of the classification started by a right, up or down
\* swipe increases currentIndex by exactly 1, whether its calls succeeded or not.
C1_Original ==
    [][\A op \in DOMAIN inflight : Ends(op) => currentIndex' = currentIndex + 1]_vars

\* C1 as amended: a right (up, down) swipe starts a classification of the
\* displayed photo into likedPhotos (superlikedPhotos, toDelete); the lookup is
\* followed by a creation when it finds no album and by an addition otherwise; a
\* creation or addition that succeeds leaves the photo in that album; and the end
\* of the classification, successful or not, sets currentIndex to the index of the
\* release plus 1, or leaves it alone when that index was the last.
C1_Classify ==
    [][/\ \A d \in {"right", "up", "down"} :
              Released(d) =>
                  /\ inflight' = inflight (+) SetToBag({[index |-> currentIndex,
                                                        photo |-> photos[currentIndex + 1],
                                                        target |-> NameOf(d),
                                                        pc |-> "getAlbum"]})
                  /\ library' = library
       /\ \A op \in DOMAIN inflight :
              /\ (last'.kind = "settle" /\ last'.outcome \in {"absent", "found"}
                  /\ BagIn(op, inflight) /\ ~BagIn(op, inflight')) =>
                      /\ op.pc = "getAlbum"
                      /\ last'.outcome = "found" <=> library[op.target].present
                      /\ BagIn([op EXCEPT !.pc = IF library[op.target].present
                                                 THEN "addAssets" ELSE "createAlbum"],
                               inflight')
                      /\ library' = library
              /\ Ends(op) =>
                      /\ Advanced(op.index)
                      /\ IF last'.outcome = "ok"
                         THEN library' = [library EXCEPT ![op.target] =
                                  [present |-> TRUE, assets |-> @.assets \cup {op.photo}]]
                         ELSE library' = library]_vars

\* C1's case: the right swipe on the first photo has created likedPhotos with it
\* and the index has moved to the second photo.
C1_Witness ==
    /\ last.kind = "settle" /\ last.outcome = "ok"
    /\ inflight = EmptyBag
    /\ currentIndex = 1
    /\ library["likedPhotos"] = [present |-> TRUE, assets |-> {PhotoAt(0)}]
    /\ ~library["toDelete"].present /\ ~library["superlikedPhotos"].present

\* C2 as stated: a left swipe increases currentIndex by 1 and issues no
\* media-library call.
C2_Original ==
    [][Released("left") =>
           /\ currentIndex' = currentIndex + 1
           /\ UNCHANGED <<inflight, library>>]_vars

\* C2 as amended: a left swipe increases currentIndex by 1 unless the last photo
\* is displayed, where it leaves it; in both cases it issues no media-library call
\* and the library is unchanged.
C2_Skip ==
    [][Released("left") =>
           /\ currentIndex' = IF AtLastPhoto THEN currentIndex ELSE currentIndex + 1
           /\ UNCHANGED <<inflight, library, photos>>]_vars

\* C2's case: a left swipe on the first photo has moved to the second.
C2_Witness ==
    /\ last.kind = "release" /\ last.dir = "left"
    /\ currentIndex = 1
    /\ inflight = EmptyBag
    /\ \A a \in TargetAlbums : library[a] = NoAlbum

\* C3 as stated: with the last photo displayed a swipe in any direction changes
\* neither currentIndex nor the media library.
C3_Original ==
    [][/\ (AtLastPhoto /\ last'.kind = "release") => currentIndex' = currentIndex
       /\ \A op \in DOMAIN inflight :
              (Ends(op) /\ op.index = Len(photos) - 1) =>
                  UNCHANGED <<currentIndex, library>>]_vars

\* C3 as amended: currentIndex never reaches photos.length; a swipe released with
\* the last photo displayed never changes currentIndex, at its release or at the
\* end of its classification; a left swipe there issues no library call, while a
\* right, up or down swipe classifies the last photo like any other.
C3_LastPhoto ==
    [][/\ Len(photos') > 0 => currentIndex' < Len(photos')
       /\ (AtLastPhoto /\ last'.kind = "release") =>
              /\ UNCHANGED <<currentIndex, imageLoading, library>>
              /\ last'.dir \in {"left", "none"} => UNCHANGED inflight
              /\ last'.dir \in {"right", "up", "down"} =>
                     BagIn([index |-> currentIndex, photo |-> photos[Len(photos)],
                            target |-> NameOf(last'.dir), pc |-> "getAlbum"], inflight')
       /\ \A op \in DOMAIN inflight :
              (Ends(op) /\ op.index = Len(photos) - 1) =>
                  UNCHANGED <<currentIndex, imageLoading>>]_vars

\* C3's case: with the last of several photos displayed, a down swipe has put it
\* into toDelete and the index is still that of the last photo.
C3_Witness ==
    /\ Len(photos) > 1
    /\ AtLastPhoto
    /\ last.kind = "settle" /\ last.outcome = "ok"
    /\ library["toDelete"].assets = {photos[Len(photos)]}
    /\ inflight = EmptyBag

\* C4: 0 <= currentIndex <= photos.length in every state, and once loaded the
\* photo sequence never changes.
C4_IndexInRange ==
    /\ [](0 <= currentIndex /\ currentIndex <= Len(photos))
    /\ [][~loading => photos' = photos]_vars

\* C4's case: the last photo of a full album is displayed while classifications
\* of earlier photos are still in flight.
C4_Witness ==
    /\ Len(photos) = MaxPhotos
    /\ AtLastPhoto
    /\ BagCardinality(inflight) = MaxClassified
    /\ \A op \in DOMAIN inflight : op.index < currentIndex

\* C5: a lookup, creation or addition that throws, or a creation that returns no
\* album, is caught: no rejection is left unhandled, the library is unchanged and
\* the index moves as at the end of a successful classification.
C5_FailureCaught ==
    [][(last'.kind = "settle" /\ last'.outcome \in {"throws", "null"}) =>
           /\ \E op \in DOMAIN inflight : Ends(op) /\ Advanced(op.index)
           /\ UNCHANGED <<unhandled, library, photos, loading>>]_vars

\* C5's case: the classification of the first photo failed and the second photo
\* is displayed.
C5_Witness ==
    /\ last.kind = "settle" /\ last.outcome \in {"throws", "null"}
    /\ inflight = EmptyBag
    /\ currentIndex = 1
    /\ ~unhandled
    /\ \A a \in TargetAlbums : library[a] = NoAlbum

C7_AlbumsSorted ==
    (albumPhase = "rendered" /\ ~albumsLoading) =>
        /\ Len(albums) = Len(libAlbums)
        /\ \A i \in DOMAIN libAlbums :
               Cardinality({j \in DOMAIN albums :
                                albums[j] = [id |-> libAlbums[i].id,
                                             assetCount |-> libAlbums[i].count]}) = 1
        /\ \A j \in DOMAIN albums :
               j + 1 \in DOMAIN albums => albums[j].assetCount >= albums[j + 1].assetCount

\* C7's case: a full library returned in increasing order of count is rendered.
C7_Witness ==
    /\ albumPhase = "rendered"
    /\ Len(libAlbums) = MaxAlbums
    /\ \A i \in DOMAIN libAlbums :
           i + 1 \in DOMAIN libAlbums => libAlbums[i].count < libAlbums[i + 1].count
    /\ albums[1].id = MaxAlbums

\* C8 as stated: the release of a right, up or down swipe on a photo that is not
\* the last advances the index at once, its library calls still pending.
C8_Original ==
    [][\A d \in {"right", "up", "down"} :
           (Released(d) /\ ~AtLastPhoto) => currentIndex' = currentIndex + 1]_vars

\* C8 as amended: the release of a right, up or down swipe leaves currentIndex
\* unchanged with its lookup pending, a lookup that answers leaves it unchanged,
\* and currentIndex changes only at a left swipe or at the end of a
\* classification.
C8_AdvanceAfterCalls ==
    [][/\ \A d \in {"right", "up", "down"} :
              Released(d) =>
                  /\ currentIndex' = currentIndex
                  /\ BagCardinality(inflight') = BagCardinality(inflight) + 1
       /\ currentIndex' # currentIndex =>
              \/ Released("left")
              \/ last'.kind = "settle" /\ \E op \in DOMAIN inflight : Ends(op)]_vars

\* C8's case: a right swipe on the first of several photos is released, its
\* lookup is pending and the first photo is still displayed.
C8_Witness ==
    /\ last.kind = "release" /\ last.dir = "right"
    /\ Len(photos) > 1
    /\ currentIndex = 0
    /\ BagCardinality(inflight) = 1

\* C9: imageLoading becomes true only together with a change of currentIndex,
\* and does so on every such change.
C9_LoadingFollowsIndex ==
    [][/\ (imageLoading' /\ ~imageLoading) => currentIndex' # currentIndex
       /\ currentIndex' # currentIndex => imageLoading']_vars

\* C10: no step decreases currentIndex.
C10_IndexMonotone == [][currentIndex' >= currentIndex]_vars

====
